---- MODULE Spec2Model ----
(***************************************************************************)
(* Model of symforce/opt/fmt_compat.h: the two partial specializations the *)
(* header registers with fmt 11 (range_format_kind<T, char> for types with *)
(* a derived() accessor, and formatter<T, char> for streamable class       *)
(* types), and the formatting of a value at a call site that includes, or  *)
(* does not include, the header.                                           *)
(*                                                                         *)
(* A type T is described by the structural facts the header's constraints  *)
(* and the fmt formatters it names look at.  A value is a pair of small    *)
(* numbers; a text is a sequence of one-character tokens.                  *)
(***************************************************************************)
EXTENDS Integers, Sequences, FiniteSets, TLC

\* Largest coordinate of a formatted value in the call-site specification.
MaxCoord == 4

\* Largest coordinate of a value in the repeated-request specification.
HistCoord == 1

(***************************************************************************)
(* The universe the template parameter T ranges over.                      *)
(***************************************************************************)
Cats == {"arith", "pointer", "enum", "array", "union", "class"}

\* How `os << t` writes a value; "none": the expression is ill-formed.
Layouts == {"none", "num", "chars", "tuple", "grid"}

TypeRec ==
  [cat : Cats, sv : BOOLEAN, strlike : BOOLEAN, str : Layouts,
   derived : BOOLEAN, iter : BOOLEAN, native : BOOLEAN]

\* The combinations of facts a C++ type can have.
WellFormedType(t) ==
  /\ t.strlike => t.sv
  /\ t.cat = "arith" =>
       ~t.sv /\ t.str = "num" /\ ~t.derived /\ ~t.iter /\ t.native
  /\ t.cat = "pointer" =>
       /\ ~t.derived /\ ~t.iter /\ t.str = "num"
       /\ t.sv = t.strlike
       /\ t.sv => ~t.native
  /\ t.cat = "enum" =>
       ~t.sv /\ ~t.derived /\ ~t.iter /\ t.str \in {"none", "num"}
  /\ t.cat = "array" =>
       /\ t.iter /\ ~t.derived /\ ~t.native
       /\ t.sv = t.strlike
       /\ t.str = (IF t.sv THEN "chars" ELSE "num")
  /\ t.cat = "union" =>
       ~t.strlike /\ ~t.native /\ t.str \in {"none", "tuple", "grid"}
  /\ t.cat = "class" =>
       /\ ~t.native
       /\ t.strlike => (t.str = "chars" /\ t.iter)
       /\ ~t.strlike => t.str \in {"none", "tuple", "grid"}

Types == {t \in TypeRec : WellFormedType(t)}

Values == (0 .. MaxCoord) \X (0 .. MaxCoord)

HistValues == (0 .. HistCoord) \X (0 .. HistCoord)

(***************************************************************************)
(* The header's constraints.                                               *)
(***************************************************************************)
\* Plausible slip: the concept also asks for a class type.
EigenDerivedClassOnly(T) == T.derived /\ T.cat = "class"

\* concept EigenDerived = requires(const T& t) { t.derived(); };
EigenDerived(T) == T.derived

\* std::is_class_v<T>: false for unions and every non-class type.
IsClass(T) == T.cat = "class"

\* std::is_convertible_v<const T&, fmt::string_view>
ConvertibleToStringView(T) == T.sv

\* requires(std::ostream& os, const T& t) { os << t; }
Streamable(T) == T.str # "none"

\* Plausible slip: the is_class guard is dropped.
UniversalNoClassGuard(T) == ~ConvertibleToStringView(T) /\ Streamable(T)

\* Plausible slip: the string_view guard is dropped.
UniversalNoStringGuard(T) == IsClass(T) /\ Streamable(T)

\* Plausible slip: the rule is also restricted to types without derived().
UniversalNotDerived(T) ==
  IsClass(T) /\ ~ConvertibleToStringView(T) /\ Streamable(T) /\ ~T.derived

\* The requires-clause of the formatter<T, char> partial specialization.
UniversalFormatterMatches(T) ==
  IsClass(T) /\ ~ConvertibleToStringView(T) /\ Streamable(T)

(***************************************************************************)
(* The fmt formatters the header names, as the header describes them.      *)
(***************************************************************************)
\* fmt formats arithmetic types, and the pointers and enums it knows.
HostNativeMatches(T) == T.native

\* std::string / string_view (and character pointers and arrays).
HostStringMatches(T) == T.strlike

\* fmt/ranges.h: a type with begin()/end() that is not a string is a range.
HostRangeKind(T) == IF T.iter /\ ~T.strlike THEN "sequence" ELSE "disabled"

\* Plausible slip: the specialization is registered for another character
\* type, so range_format_kind<T, char> stays what fmt/ranges.h computes.
RangeFormatKindHostOnly(T, inc) == HostRangeKind(T)

\* range_format_kind<T, char>::value, with or without the header included.
RangeFormatKind(T, inc) ==
  IF inc /\ EigenDerived(T) THEN "disabled" ELSE HostRangeKind(T)

\* fmt/ranges.h's formatter is enabled unless the kind is disabled.
HostRangeMatches(T, inc) == RangeFormatKind(T, inc) # "disabled"

Formatters == {"native", "string", "range", "ostream"}

Matches(f, T, inc) ==
  CASE f = "native" -> HostNativeMatches(T)
    [] f = "string" -> HostStringMatches(T)
    [] f = "range" -> HostRangeMatches(T, inc)
    [] f = "ostream" -> inc /\ UniversalFormatterMatches(T)

\* The formatter specializations usable for T.
Candidates(T, inc) == {f \in Formatters : Matches(f, T, inc)}

\* Specialization selection: one match is used, none or several is an error.
Select(T, inc) ==
  LET c == Candidates(T, inc) IN
    IF c = {} THEN "none"
    ELSE IF Cardinality(c) = 1 THEN CHOOSE f \in c : TRUE
    ELSE "ambiguous"

Formattable(T, inc) == Select(T, inc) \in Formatters

(***************************************************************************)
(* Texts.                                                                  *)
(***************************************************************************)
Digit(n) == <<"0", "1", "2", "3", "4", "5", "6", "7", "8", "9">>[n + 1]

\* What the type's operator<< writes for v.
StreamText(layout, v) ==
  CASE layout = "num" -> <<Digit(v[1])>>
    [] layout = "chars" -> <<Digit(v[1]), Digit(v[2])>>
    [] layout = "tuple" -> <<"(", Digit(v[1]), ",", " ", Digit(v[2]), ")">>
    [] layout = "grid" ->
         <<Digit(v[1]), " ", Digit(v[2]), "\n", Digit(v[2]), " ", Digit(v[1])>>
    [] layout = "none" -> <<>>

\* os << t on a stream that already holds os.
StreamInsert(os, T, v) == os \o StreamText(T.str, v)

\* fmt/ranges.h's bracketed sequence.
RangeText(v) == <<"[", Digit(v[1]), ",", " ", Digit(v[2]), "]">>

NativeText(v) == <<Digit(v[1])>>

StringText(v) == <<Digit(v[1]), Digit(v[2])>>

\* Plausible slip: the formatter keeps its buffer between calls.
RetainedBuffer(prev) == prev

\* formatter<T, char> has no members: every call starts from an empty buffer.
FormatterBuffer(prev) == <<>>

\* fmt::ostream_formatter: stream the value into the buffer, emit the buffer.
UniversalFormat(prev, T, v) == StreamInsert(FormatterBuffer(prev), T, v)

\* The stream buffer the call filled; none when another formatter ran.
BufferAfter(f, prev, T, v) ==
  IF f = "ostream" THEN UniversalFormat(prev, T, v) ELSE <<>>

\* The text a call produces; an empty text when nothing was selected.
FormatText(f, prev, T, v) ==
  CASE f = "native" -> NativeText(v)
    [] f = "string" -> StringText(v)
    [] f = "range" -> RangeText(v)
    [] f = "ostream" -> UniversalFormat(prev, T, v)
    [] OTHER -> <<>>

(***************************************************************************)
(* State.                                                                  *)
(***************************************************************************)
VARIABLES
  included,   \* the translation unit includes fmt_compat.h
  pc,         \* "idle", "formatted", "streamed"
  cur,        \* the request: [T, v]
  matched,    \* the formatter specializations that matched cur.T
  suppressed, \* the header's range_format_kind specialization matched cur.T
  kind,       \* range_format_kind<T, char>::value for cur.T
  sel,        \* the selected formatter, "none" or "ambiguous"
  out,        \* the formatted text
  buffer,     \* the stream buffer the last call filled
  oss,        \* the text captured by streaming cur.v directly
  probe,      \* repeated-request specification: the watched request
  phase,      \* ... how far the watched request has been repeated
  probeOuts   \* ... every outcome seen for the watched request

vars ==
  <<included, pc, cur, matched, suppressed, kind, sel, out, buffer, oss,
    probe, phase, probeOuts>>

IntType ==
  [cat |-> "arith", sv |-> FALSE, strlike |-> FALSE, str |-> "num",
   derived |-> FALSE, iter |-> FALSE, native |-> TRUE]

NoRequest == [T |-> IntType, v |-> <<0, 0>>]

Init ==
  /\ included \in BOOLEAN
  /\ pc = "idle"
  /\ cur = NoRequest
  /\ matched = {}
  /\ suppressed = FALSE
  /\ kind = "disabled"
  /\ sel = "none"
  /\ out = <<>>
  /\ buffer = <<>>
  /\ oss = <<>>
  /\ probe = NoRequest
  /\ phase = 0
  /\ probeOuts = {}

\* fmt::format("{}", v) for a value v of type T.
Format(T, v) ==
  /\ pc = "idle"
  /\ cur' = [T |-> T, v |-> v]
  /\ matched' = Candidates(T, included)
  /\ suppressed' = (included /\ EigenDerived(T))
  /\ kind' = RangeFormatKind(T, included)
  /\ sel' = Select(T, included)
  /\ out' = FormatText(Select(T, included), buffer, T, v)
  /\ buffer' = BufferAfter(Select(T, included), buffer, T, v)
  /\ oss' = <<>>
  /\ pc' = "formatted"
  /\ UNCHANGED <<included, probe, phase, probeOuts>>

\* std::ostringstream oss; oss << v; oss.str()
StreamDirect ==
  /\ pc = "formatted"
  /\ Streamable(cur.T)
  /\ oss' = StreamInsert(<<>>, cur.T, cur.v)
  /\ pc' = "streamed"
  /\ UNCHANGED <<included, cur, matched, suppressed, kind, sel, out, buffer,
                 probe, phase, probeOuts>>

\* The call site is left and its locals go out of scope.
Return ==
  /\ pc \in {"formatted", "streamed"}
  /\ pc' = "idle"
  /\ cur' = NoRequest
  /\ matched' = {}
  /\ suppressed' = FALSE
  /\ kind' = "disabled"
  /\ sel' = "none"
  /\ out' = <<>>
  /\ oss' = <<>>
  /\ UNCHANGED <<included, buffer, probe, phase, probeOuts>>

Next ==
  \/ \E T \in Types, v \in Values : Format(T, v)
  \/ StreamDirect
  \/ Return

Spec == Init /\ [][Next]_vars

(***************************************************************************)
(* Repeated requests: one watched request (probe) is formatted again and   *)
(* again, with arbitrary other requests in between; every outcome seen for *)
(* it is collected.                                                        *)
(***************************************************************************)
\* What a call site observes of one formatting call.
Outcome(T, v, inc, prev) ==
  [sel |-> Select(T, inc),
   out |-> FormatText(Select(T, inc), prev, T, v),
   universal |-> ("ostream" \in Candidates(T, inc)),
   kind |-> RangeFormatKind(T, inc)]

InitHistory ==
  /\ included = TRUE
  /\ pc = "idle"
  /\ cur = NoRequest
  /\ matched = {}
  /\ suppressed = FALSE
  /\ kind = "disabled"
  /\ sel = "none"
  /\ out = <<>>
  /\ buffer = <<>>
  /\ oss = <<>>
  /\ probe \in [T : Types, v : HistValues]
  /\ phase = 0
  /\ probeOuts = {}

\* A complete call for the watched request.
FormatProbe ==
  /\ probeOuts' = probeOuts \cup {Outcome(probe.T, probe.v, included, buffer)}
  /\ buffer' = BufferAfter(Select(probe.T, included), buffer, probe.T, probe.v)
  /\ phase' = (IF phase = 0 THEN 1 ELSE IF phase = 2 THEN 3 ELSE phase)
  /\ UNCHANGED <<included, pc, cur, matched, suppressed, kind, sel, out, oss,
                 probe>>

\* A complete call for any other request.
FormatOther(T, v) ==
  /\ [T |-> T, v |-> v] # probe
  /\ buffer' = BufferAfter(Select(T, included), buffer, T, v)
  /\ phase' = (IF phase = 1 THEN 2 ELSE phase)
  /\ UNCHANGED <<included, pc, cur, matched, suppressed, kind, sel, out, oss,
                 probe, probeOuts>>

NextHistory ==
  \/ FormatProbe
  \/ \E T \in Types, v \in HistValues : FormatOther(T, v)

SpecHistory == InitHistory /\ [][NextHistory]_vars

(***************************************************************************)
(* Properties.                                                             *)
(***************************************************************************)
\* The request of the current state was resolved with the header included.
Resolved == pc # "idle" /\ included

ThreeGuards(t) == t.cat = "class" /\ ~t.sv /\ t.str # "none"

HostFormatters == {"native", "string", "range"}

\* C1: with the header included, the universal stream formatter is among the
\* specializations matching T exactly when T is a class type, const T& is not
\* convertible to fmt::string_view and os << t is well-formed; without the
\* header it never matches.
C1_MatchIffThreeGuards ==
  pc # "idle" =>
    (("ostream" \in matched) <=> (included /\ ThreeGuards(cur.T)))

C1_Witness ==
  /\ Resolved
  /\ "ostream" \in matched
  /\ cur.T.derived /\ cur.T.iter

\* C2 (as stated): for every class type with operator<< that is not
\* convertible to a string view, and every value, the formatted text equals
\* the text captured by streaming the value directly.
C2_FormatEqualsStream ==
  (pc = "streamed" /\ included /\ ThreeGuards(cur.T)) =>
    (sel = "ostream" /\ out = oss)

\* C3: with the header included, range_format_kind<T, char> is disabled for
\* every T with a derived() accessor, whatever else T is, and the header's
\* specialization applies to no type without the accessor.
C3_DerivedDisablesRange ==
  Resolved =>
    /\ cur.T.derived => (suppressed /\ kind = "disabled")
    /\ ~cur.T.derived => (~suppressed /\ kind = HostRangeKind(cur.T))

C3_Witness ==
  /\ Resolved
  /\ cur.T.derived /\ cur.T.iter /\ cur.T.cat = "union"
  /\ kind = "disabled"

\* C4 (as stated): a class type with derived(), begin()/end() and operator<<
\* is formatted by the stream formatter and yields the stream text, not the
\* bracketed sequence.
C4_MatrixUsesStream ==
  (pc = "streamed" /\ included /\ cur.T.cat = "class"
     /\ cur.T.derived /\ cur.T.iter /\ cur.T.str # "none") =>
    (sel = "ostream" /\ out = oss /\ out # RangeText(cur.v))

\* C4 (amended): the same, for such a type that is moreover not convertible
\* to fmt::string_view.
C4_MatrixUsesStreamNotString ==
  (pc = "streamed" /\ included /\ cur.T.cat = "class" /\ ~cur.T.sv
     /\ cur.T.derived /\ cur.T.iter /\ cur.T.str # "none") =>
    (sel = "ostream" /\ out = oss /\ out # RangeText(cur.v))

C4_Witness ==
  /\ pc = "streamed" /\ included
  /\ cur.T.cat = "class" /\ ~cur.T.sv /\ cur.T.derived /\ cur.T.iter
  /\ cur.T.str = "grid" /\ cur.v = <<1, 0>>
  /\ out = <<"1", " ", "0", "\n", "0", " ", "1">>

\* C5: for a class type convertible to fmt::string_view the universal rule
\* does not match, selection is not ambiguous, and where fmt's string
\* formatter was the one selected without the header it still is.
C5_StringTypesUntouched ==
  (Resolved /\ cur.T.cat = "class" /\ cur.T.sv) =>
    /\ "ostream" \notin matched
    /\ sel # "ambiguous"
    /\ Select(cur.T, FALSE) = "string" => sel = "string"

C5_Witness ==
  /\ Resolved
  /\ cur.T.cat = "class" /\ cur.T.strlike /\ cur.T.str = "chars"
  /\ sel = "string"

\* C6: for a non-class type the universal rule does not match even when the
\* type is streamable, selection is not ambiguous, and where fmt's native
\* formatting was the one selected without the header it still is.
C6_NonClassUntouched ==
  (Resolved /\ cur.T.cat # "class") =>
    /\ "ostream" \notin matched
    /\ sel # "ambiguous"
    /\ Select(cur.T, FALSE) = "native" => sel = "native"

C6_Witness ==
  /\ Resolved
  /\ cur.T.cat = "pointer" /\ cur.T.str = "num" /\ cur.T.native
  /\ sel = "native"

\* C7 (as stated): a type that formats without the header still formats with
\* the header included.
C7_HeaderOnlyWidens ==
  (Resolved /\ Formattable(cur.T, FALSE)) => sel \in Formatters

\* C8 (as stated): the universal formatter and a formatter of fmt never match
\* the same type, so selection is never ambiguous.
C8_NoOverlapWithHost ==
  pc # "idle" =>
    /\ ~("ostream" \in matched /\ matched \cap HostFormatters # {})
    /\ sel # "ambiguous"

\* C9: whether the header's range rule applies to T is the same for every
\* type that agrees with T on the derived() accessor, whether the universal
\* formatter matches T is the same for every type that agrees with T on the
\* three guards, and each of the four combinations of the two outcomes
\* occurs for some type.
C9_RulesIndependent ==
  Resolved =>
    /\ \A U \in Types :
         /\ U.derived = cur.T.derived => EigenDerived(U) = suppressed
         /\ ThreeGuards(U) = ThreeGuards(cur.T) =>
              UniversalFormatterMatches(U) = ("ostream" \in matched)
    /\ \A a, b \in BOOLEAN :
         \E U \in Types :
           EigenDerived(U) = a /\ UniversalFormatterMatches(U) = b

C9_Witness ==
  /\ Resolved
  /\ suppressed /\ "ostream" \notin matched
  /\ cur.T.cat = "class" /\ cur.T.str = "none"

====
